---- MODULE Spec2Model ----
(***************************************************************************)
(* Harbour Pools passport: the detail/list page (app.js) and the overview  *)
(* page (overview.js) over the shared localStorage slices.                 *)
(*                                                                         *)
(* Strings that the program compares or reformats (visit dates) are        *)
(* sequences of one-character strings; every other string is a TLA+       *)
(* string.  A storage slot is <<>> when the key is absent and <<v>> when   *)
(* it holds v.                                                             *)
(***************************************************************************)
EXTENDS Integers, Sequences, FiniteSets, TLC

VARIABLES
  catalog,            \* what loadPools resolves to on this deployment
  store,              \* localStorage: key -> <<>> | <<value>>
  storageMode,        \* how this browser's localStorage behaves
  today,              \* index into Calendar: the device's current day
  loads,              \* page loads so far in this browser tab
  page,               \* which page the tab shows: "none" | "app" | "overview"
  \* ---- app.js module state
  appStatus,          \* "closed" | "loading" | "ready" | "failed"
  pools,              \* let pools
  visited,            \* let visited
  selectedIndex,      \* let selectedIndex
  currentStampsPage,  \* let currentStampsPage
  onStampsView,       \* let onStampsView
  mapReady,           \* map and marker are set
  poolList,           \* DOM: #poolList
  countBadge,         \* DOM: #countBadge, <<>> or <<done, total>>
  passportGrid,       \* DOM: #passportGrid, the cards of the shown page
  \* ---- overview.js page state
  ovStatus,           \* "closed" | "loading" | "ready" | "error"
  overviewMapText,    \* DOM: #overviewMap text content
  overviewBadge,      \* DOM: #overviewBadge, <<>> or <<count, total>>
  markers,            \* Leaflet markers added by initOverviewMap
  \* ---- observations of the last handler run
  last,               \* what the last handler run did outside the DOM and the
                      \* store: a dialog, a reload, a map pan, an opened window
  toggles,            \* toggleStamp calls so far in this behaviour
  calls,              \* toggleStamp calls per pool id since the app page loaded
  base,               \* pool ids that had an entry when the app page loaded
  lastWritten,        \* <<>> or <<the map last passed to writeVisited>>
  lastPageWritten,    \* <<>> or <<the index last passed to writeStampsPage>>
  detailSeen          \* <<>> or <<what the app page showed when the tab left it>>

vars == << catalog, store, storageMode, today, loads, page, appStatus, pools, visited, selectedIndex,
           currentStampsPage, onStampsView, mapReady, poolList,
           countBadge, passportGrid, ovStatus, overviewMapText, overviewBadge,
           markers, last, toggles, calls, base, lastWritten, lastPageWritten,
           detailSeen >>

appVars == << appStatus, pools, visited, selectedIndex, currentStampsPage,
              onStampsView, mapReady, poolList, countBadge,
              passportGrid, calls, base, lastWritten, lastPageWritten >>

ovVars == << ovStatus, overviewMapText, overviewBadge, markers >>

-----------------------------------------------------------------------------
(* Bounds *)

MaxToggles == 2      \* toggleStamp calls in one behaviour
MaxLoads == 2        \* page loads in one behaviour

-----------------------------------------------------------------------------
(* Small helpers *)

Min(a, b) == IF a <= b THEN a ELSE b
Max(a, b) == IF a >= b THEN a ELSE b

\* Math.ceil(n / d) for n >= 0, d > 0
CeilDiv(n, d) == (n + d - 1) \div d

-----------------------------------------------------------------------------
(* Dates as character strings *)

DigitChars == << "0", "1", "2", "3", "4", "5", "6", "7", "8", "9" >>

IsDigit(c) == \E i \in 1..Len(DigitChars) : DigitChars[i] = c

Digit(n) == DigitChars[n + 1]

DigitValue(c) == (CHOOSE i \in 1..Len(DigitChars) : DigitChars[i] = c) - 1

\* The collation weight of a character: punctuation sorts before digits,
\* "-" before "/".
CharOrder == << "-", "/" >> \o DigitChars

Weight(c) == CHOOSE i \in 1..Len(CharOrder) : CharOrder[i] = c

\* The days the device's clock passes through, in chronological order.
Calendar ==
  << [d |-> 5, m |-> 12, y |-> 2024],
     [d |-> 4, m |-> 1,  y |-> 2025] >>

\* new Intl.DateTimeFormat('en-AU').format(date): DD/MM/YYYY
FormatEnAU(date) ==
  << Digit(date.d \div 10), Digit(date.d % 10), "/",
     Digit(date.m \div 10), Digit(date.m % 10), "/",
     Digit(date.y \div 1000), Digit((date.y \div 100) % 10),
     Digit((date.y \div 10) % 10), Digit(date.y % 10) >>

\* A legacy value as older versions stored it: YYYY-MM-DD
FormatISO(date) ==
  << Digit(date.y \div 1000), Digit((date.y \div 100) % 10),
     Digit((date.y \div 10) % 10), Digit(date.y % 10), "-",
     Digit(date.m \div 10), Digit(date.m % 10), "-",
     Digit(date.d \div 10), Digit(date.d % 10) >>

\* /^\d{4}-\d{2}-\d{2}$/.test(d)
IsISODate(d) ==
  /\ Len(d) = 10
  /\ \A i \in {1, 2, 3, 4, 6, 7, 9, 10} : IsDigit(d[i])
  /\ d[5] = "-"
  /\ d[8] = "-"

\* formatDateAU showing every value as stored
formatDateAU_AsStored(d) == d

formatDateAU(d) ==
  IF d = <<>> THEN <<>>
  ELSE IF IsISODate(d)
       THEN SubSeq(d, 9, 10) \o <<"/">> \o SubSeq(d, 6, 7) \o <<"/">> \o SubSeq(d, 1, 4)
       ELSE d

\* a.localeCompare(b) on date strings: -1, 0 or 1, character by character
RECURSIVE localeCompare(_, _)
localeCompare(a, b) ==
  IF a = <<>> /\ b = <<>> THEN 0
  ELSE IF a = <<>> THEN -1
  ELSE IF b = <<>> THEN 1
  ELSE IF Weight(Head(a)) < Weight(Head(b)) THEN -1
  ELSE IF Weight(Head(a)) > Weight(Head(b)) THEN 1
  ELSE localeCompare(Tail(a), Tail(b))

-----------------------------------------------------------------------------
(* The pool catalog (data.js: loadPools) *)

AllPools ==
  << [id |-> "a", name |-> "A"],
     [id |-> "b", name |-> "B"],
     [id |-> "c", name |-> "C"],
     [id |-> "d", name |-> "D"] >>

PoolIds == { AllPools[i].id : i \in 1..Len(AllPools) }

IdsOf(ps) == { ps[i].id : i \in 1..Len(ps) }

-----------------------------------------------------------------------------
(* storage.js: the persisted slices *)

Keys == { "name", "visited", "selection", "stampsPage" }

EmptyStore == [k \in Keys |-> <<>>]

EmptyMap == <<>>

\* How a browser's localStorage behaves for the whole session:
\*   "ok"       every call succeeds
\*   "full"     setItem throws (quota exceeded); getItem and removeItem succeed
\*   "blocked"  every call throws (storage access denied)
StorageModes == { "ok", "full", "blocked" }

GetItemThrows(mode) == mode = "blocked"

SetItemThrows(mode) == mode # "ok"

RemoveItemThrows(mode) == mode = "blocked"

\* localStorage.getItem(key): <<>> for null
GetItem(s, key) == s[key]

\* Reads give the default when the key is missing or the read fails.
readVisited(s, mode) ==
  IF GetItemThrows(mode) \/ GetItem(s, "visited") = <<>> THEN EmptyMap ELSE GetItem(s, "visited")[1]

readSelection(s, mode) ==
  IF GetItemThrows(mode) \/ GetItem(s, "selection") = <<>> THEN 0 ELSE GetItem(s, "selection")[1]

readStampsPage(s, mode) ==
  IF GetItemThrows(mode) \/ GetItem(s, "stampsPage") = <<>> THEN 0 ELSE GetItem(s, "stampsPage")[1]

\* A write whose underlying setItem throws is swallowed.
writeVisited(s, map, mode) ==
  IF SetItemThrows(mode) THEN s ELSE [s EXCEPT !["visited"] = << map >>]

writeStampsPage(s, n, mode) ==
  IF SetItemThrows(mode) THEN s ELSE [s EXCEPT !["stampsPage"] = << n >>]

countVisited(map) == Cardinality(DOMAIN map)

-----------------------------------------------------------------------------
(* app.js: pure parts of the handlers *)

stampsPerPage == 3

\* visited[id]?.done
IsDone(vis, id) == id \in DOMAIN vis /\ vis[id].done

\* the delete branch clearing the whole map
RemoveEntry_ClearsAll(vis, id) == EmptyMap

RemoveEntry(vis, id) == [q \in (DOMAIN vis) \ {id} |-> vis[q]]

NewEntry(day) == [done |-> TRUE, date |-> FormatEnAU(Calendar[day])]

PutEntry(vis, id, e) == [q \in (DOMAIN vis) \cup {id} |-> IF q = id THEN e ELSE vis[q]]

\* toggleStamp without its delete branch
Toggled_NeverDeletes(vis, id, day) == PutEntry(vis, id, NewEntry(day))

\* toggleStamp, lines 213-218: the map after the toggle
Toggled(vis, id, day) ==
  IF IsDone(vis, id) THEN RemoveEntry(vis, id) ELSE PutEntry(vis, id, NewEntry(day))

\* renderList, lines 170-171: v?.done === true
Stamped(vis, id) == id \in DOMAIN vis /\ vis[id].done = TRUE

\* renderList throws at p.id when pools[selectedIndex] is undefined
RenderListThrows(ps, sel) == Len(ps) # 0 /\ sel \notin 0..(Len(ps) - 1)

BlankList == [kind |-> "blank", id |-> "", name |-> "", stamped |-> FALSE, date |-> <<>>]

NoPoolsList == [BlankList EXCEPT !.kind = "nopools"]

\* renderList labelling the chip from the entry's absence
ListView_Inverted(ps, sel, vis) ==
  IF Len(ps) = 0 THEN NoPoolsList
  ELSE IF RenderListThrows(ps, sel) THEN BlankList
  ELSE LET p == ps[sel + 1]
           stamped == ~Stamped(vis, p.id)
       IN [kind |-> "row", id |-> p.id, name |-> p.name, stamped |-> stamped,
           date |-> IF stamped /\ p.id \in DOMAIN vis THEN formatDateAU(vis[p.id].date) ELSE <<>>]

\* renderList, lines 160-202: what #poolList holds afterwards
ListView(ps, sel, vis) ==
  IF Len(ps) = 0 THEN NoPoolsList
  ELSE IF RenderListThrows(ps, sel) THEN BlankList
  ELSE LET p == ps[sel + 1]
           stamped == Stamped(vis, p.id)
       IN [kind |-> "row", id |-> p.id, name |-> p.name, stamped |-> stamped,
           date |-> IF stamped THEN formatDateAU(vis[p.id].date) ELSE <<>>]

\* updateCount
CountText(ps, vis) == << countVisited(vis), Len(ps) >>

\* renderList without its closing updateCount
BadgeAfterRenderList_NoUpdate(ps, sel, vis, badge) == badge

\* renderList ends with updateCount only on the path that renders a row
BadgeAfterRenderList(ps, sel, vis, badge) ==
  IF Len(ps) = 0 \/ RenderListThrows(ps, sel) THEN badge ELSE CountText(ps, vis)

\* the sort comparator of renderStamps, lines 268-270
CompareVisit(a, b, vis) == localeCompare(vis[a.id].date, vis[b.id].date)

\* Array.prototype.sort is stable: p goes after every element not greater
RECURSIVE InsertSorted(_, _, _)
InsertSorted(sorted, p, vis) ==
  IF sorted = <<>> THEN << p >>
  ELSE IF CompareVisit(Head(sorted), p, vis) > 0 THEN << p >> \o sorted
  ELSE << Head(sorted) >> \o InsertSorted(Tail(sorted), p, vis)

RECURSIVE SortByDate(_, _)
SortByDate(ps, vis) ==
  IF ps = <<>> THEN <<>>
  ELSE InsertSorted(SortByDate(SubSeq(ps, 1, Len(ps) - 1), vis), ps[Len(ps)], vis)

\* renderStamps, lines 266-270
VisitedPools(ps, vis) ==
  SortByDate(SelectSeq(ps, LAMBDA p : IsDone(vis, p.id)), vis)

\* renderStamps, line 272
TotalPages(n) == Max(1, CeilDiv(n, stampsPerPage))

\* renderStamps, line 273
ClampPage(cur, totalPages) == Min(cur, totalPages - 1)

\* Array.prototype.slice(start, end) with its index normalisation
SliceIndex(k, len) == IF k < 0 THEN Max(len + k, 0) ELSE Min(k, len)

JsSlice(s, start, end) ==
  LET from == SliceIndex(start, Len(s))
      to == SliceIndex(end, Len(s))
  IN IF from >= to THEN <<>> ELSE SubSeq(s, from + 1, to)

\* renderStamps, lines 276-279
PagePools(vps, cur) == JsSlice(vps, cur * stampsPerPage, cur * stampsPerPage + stampsPerPage)

\* renderStamps, lines 283-299: one card
Card(p, vis, popId) ==
  [id |-> p.id, name |-> p.name, date |-> formatDateAU(vis[p.id].date),
   pop |-> popId = << p.id >>]

\* renderStamps: the page it settles on and the cards it draws
StampsPageAfter(ps, vis, cur) == ClampPage(cur, TotalPages(Len(VisitedPools(ps, vis))))

StampsGrid(ps, vis, cur, popId) ==
  LET pp == PagePools(VisitedPools(ps, vis), StampsPageAfter(ps, vis, cur))
  IN [i \in 1..Len(pp) |-> Card(pp[i], vis, popId)]

\* openInNativeMaps, line 136: pools[selectedIndex] || pools[0]
NativeMapsTarget(ps, sel) ==
  IF sel \in 0..(Len(ps) - 1) THEN << ps[sel + 1].id >>
  ELSE IF Len(ps) > 0 THEN << ps[1].id >>
  ELSE <<>>

NoLast == [op |-> "none", confirmed |-> FALSE, threw |-> FALSE, alert |-> "", reload |-> FALSE, target |-> <<>>]

-----------------------------------------------------------------------------
(* What a device may hold when the tab is opened *)

LegacyDate == FormatISO([d |-> 16, m |-> 12, y |-> 2023])

FullMap == [q \in PoolIds |-> NewEntry(1)]

InitVisitedSlots ==
  { <<>>, << [q \in {"b"} |-> [done |-> TRUE, date |-> LegacyDate]] >>, << FullMap >> }

InitSelectionSlots == { <<>>, << 2 >>, << 0 - 1 >> }

InitStampsPageSlots == { <<>>, << 1 >>, << 0 - 1 >> }

InitNameSlots == { <<>> }

Catalogs == { SubSeq(AllPools, 1, n) : n \in {0, 2, Len(AllPools)} }

\* The stores a device may hold: any visited map with any stamps page, or a
\* stored selection on an otherwise fresh device.
InitStores ==
  { [name |-> n, visited |-> v, selection |-> s, stampsPage |-> g] :
      n \in InitNameSlots, v \in InitVisitedSlots,
      s \in InitSelectionSlots, g \in InitStampsPageSlots }

DeviceStores == { s \in InitStores : s.selection = <<>> \/ (s.visited = <<>> /\ s.stampsPage = <<>>) }

-----------------------------------------------------------------------------
(* Page loads *)

NoCalls == [p \in PoolIds |-> 0]

AppClosed ==
  /\ appStatus' = "closed"
  /\ pools' = <<>>
  /\ visited' = EmptyMap
  /\ selectedIndex' = 0
  /\ currentStampsPage' = 0
  /\ onStampsView' = FALSE
  /\ mapReady' = FALSE
  /\ poolList' = BlankList
  /\ countBadge' = <<>>
  /\ passportGrid' = <<>>
  /\ calls' = NoCalls
  /\ base' = {}
  /\ lastWritten' = <<>>
  /\ lastPageWritten' = <<>>

OvClosed ==
  /\ ovStatus' = "closed"
  /\ overviewMapText' = ""
  /\ overviewBadge' = <<>>
  /\ markers' = <<>>

\* overview.js evaluated in a fresh document: handlers registered, init pending
OvFresh ==
  /\ ovStatus' = "loading"
  /\ overviewMapText' = ""
  /\ overviewBadge' = <<>>
  /\ markers' = <<>>

\* app.js lines 39-56 evaluated in a fresh document
AppLoad ==
  /\ loads < MaxLoads
  /\ loads' = loads + 1
  /\ page' = "app"
  /\ appStatus' = "loading"
  /\ pools' = <<>>
  /\ visited' = readVisited(store, storageMode)
  /\ selectedIndex' = readSelection(store, storageMode)
  /\ currentStampsPage' = readStampsPage(store, storageMode)
  /\ onStampsView' = FALSE
  /\ mapReady' = FALSE
  /\ poolList' = BlankList
  /\ countBadge' = <<>>
  /\ passportGrid' = <<>>
  /\ calls' = NoCalls
  /\ base' = DOMAIN readVisited(store, storageMode)
  /\ lastWritten' = <<>>
  /\ lastPageWritten' = <<>>
  /\ detailSeen' = <<>>
  /\ last' = NoLast
  /\ OvClosed
  /\ UNCHANGED << catalog, storageMode, toggles, store, today >>

\* init, lines 306-312, when loadPools resolves
AppInitResolve ==
  /\ appStatus = "loading"
  /\ pools' = catalog
  /\ mapReady' = (Len(catalog) # 0)
  /\ poolList' = ListView(catalog, selectedIndex, visited)
  /\ IF RenderListThrows(catalog, selectedIndex)
       THEN /\ appStatus' = "renderError"
            /\ countBadge' = countBadge
       ELSE /\ appStatus' = "ready"
            /\ countBadge' = CountText(catalog, visited)
  /\ UNCHANGED << catalog, storageMode, toggles, store, today, loads, page, visited, selectedIndex,
                  currentStampsPage, onStampsView, passportGrid,
                  calls, base, lastWritten, lastPageWritten, detailSeen, last >>
  /\ UNCHANGED ovVars

\* init when loadPools rejects: the rejection leaves init, nothing catches it
AppInitReject ==
  /\ appStatus = "loading"
  /\ appStatus' = "loadError"
  /\ UNCHANGED << catalog, storageMode, toggles, store, today, loads, page, pools, visited, selectedIndex,
                  currentStampsPage, onStampsView, mapReady, poolList,
                  countBadge, passportGrid, calls, base, lastWritten, lastPageWritten, detailSeen, last >>
  /\ UNCHANGED ovVars

-----------------------------------------------------------------------------
(* app.js handlers *)

\* toggleStamp(poolId, animate), lines 210-223
DoToggle(poolId, animate) ==
  LET v1 == Toggled(visited, poolId, today)
      throws == RenderListThrows(pools, selectedIndex)
      newPage == StampsPageAfter(pools, v1, currentStampsPage)
      popId == IF animate THEN << poolId >> ELSE <<>>
  IN /\ appStatus = "ready"
     /\ toggles < MaxToggles
     /\ toggles' = toggles + 1
     /\ visited' = v1
     /\ lastWritten' = << v1 >>
     /\ lastPageWritten' = IF throws THEN lastPageWritten ELSE << newPage >>
     /\ poolList' = ListView(pools, selectedIndex, v1)
     /\ countBadge' = BadgeAfterRenderList(pools, selectedIndex, v1, countBadge)
     /\ store' = IF throws THEN writeVisited(store, v1, storageMode)
                 ELSE writeStampsPage(writeVisited(store, v1, storageMode), newPage, storageMode)
     /\ currentStampsPage' = IF throws THEN currentStampsPage ELSE newPage
     /\ passportGrid' = IF throws THEN passportGrid
                        ELSE StampsGrid(pools, v1, currentStampsPage, popId)
     /\ calls' = [calls EXCEPT ![poolId] = @ + 1]
     /\ last' = NoLast
     /\ UNCHANGED << catalog, storageMode, today, loads, page, appStatus, pools, selectedIndex,
                     onStampsView, mapReady, base, detailSeen >>
     /\ UNCHANGED ovVars

\* toggleStamp(poolId) with animate left at its default
ToggleStamp ==
  \E poolId \in IdsOf(pools) : DoToggle(poolId, FALSE)

\* the stamp-chip click handler of the rendered row, lines 197-200
StampChipClick ==
  /\ poolList.kind = "row"
  /\ DoToggle(poolList.id, TRUE)

\* the row click handler, lines 191-194, and panToSelected, lines 242-248
RowClick ==
  /\ appStatus = "ready"
  /\ poolList.kind = "row"
  /\ mapReady
  /\ selectedIndex \in 0..(Len(pools) - 1)
  /\ last' = [NoLast EXCEPT !.op = "pan", !.target = << pools[selectedIndex + 1].id >>]
  /\ UNCHANGED << catalog, storageMode, toggles, store, today, loads, page, appStatus, pools, visited,
                  selectedIndex, currentStampsPage, onStampsView, mapReady,
                  poolList, countBadge, passportGrid, calls, base, lastWritten,
                  lastPageWritten, detailSeen >>
  /\ UNCHANGED ovVars

\* setView(showStamps), lines 115-129
SetView ==
  \E showStamps \in BOOLEAN :
    /\ appStatus = "ready"
    /\ onStampsView' = showStamps
    /\ IF showStamps
         THEN /\ currentStampsPage' = StampsPageAfter(pools, visited, currentStampsPage)
              /\ lastPageWritten' = << StampsPageAfter(pools, visited, currentStampsPage) >>
              /\ passportGrid' = StampsGrid(pools, visited, currentStampsPage, <<>>)
              /\ store' = writeStampsPage(store, StampsPageAfter(pools, visited, currentStampsPage),
                                          storageMode)
         ELSE UNCHANGED << currentStampsPage, passportGrid, store, lastPageWritten >>
    /\ last' = NoLast
    /\ UNCHANGED << catalog, storageMode, toggles, today, loads, page, appStatus, pools, visited, selectedIndex,
                    mapReady, poolList, countBadge, calls, base, lastWritten, detailSeen >>
    /\ UNCHANGED ovVars

\* openInNativeMaps, lines 135-153
OpenInNativeMaps ==
  /\ appStatus \in {"ready", "renderError"}
  /\ NativeMapsTarget(pools, selectedIndex) # <<>>
  /\ last' = [NoLast EXCEPT !.op = "openMaps", !.target = NativeMapsTarget(pools, selectedIndex)]
  /\ UNCHANGED << catalog, storageMode, toggles, store, today, loads, page, detailSeen >>
  /\ UNCHANGED appVars
  /\ UNCHANGED ovVars

-----------------------------------------------------------------------------
(* overview.js *)

\* the marker colour taken from the entry's absence
IsVisitedIcon_Inverted(visitedMap, id) == ~(id \in DOMAIN visitedMap /\ visitedMap[id].done)

\* initOverviewMap, lines 77-78
IsVisitedIcon(visitedMap, id) == id \in DOMAIN visitedMap /\ visitedMap[id].done

\* initOverviewMap, lines 76-86: one marker per pool
OverviewMarkers(ps, visitedMap) ==
  [i \in 1..Len(ps) |-> [id |-> ps[i].id, visited |-> IsVisitedIcon(visitedMap, ps[i].id)]]

\* updateOverviewText, lines 31-36
OverviewBadgeText(ps, visitedMap) == << countVisited(visitedMap), Len(ps) >>

LoadErrorText == "Error loading pools list."

ResetFailedAlert == "Could not reset (storage not available)."

NameUpdatedAlert == "Passport name updated. You'll see it on the cover next time you open the app."

\* the user opens (or reloads) overview.html
OvLoad ==
  /\ loads < MaxLoads
  /\ loads' = loads + 1
  /\ page' = "overview"
  /\ OvFresh
  /\ AppClosed
  /\ last' = NoLast
  /\ detailSeen' = IF appStatus = "ready"
                     THEN << [visited |-> { id \in IdsOf(pools) : Stamped(visited, id) },
                              badge |-> countBadge] >>
                     ELSE <<>>
  /\ UNCHANGED << catalog, storageMode, toggles, store, today >>

\* initOverviewMap, lines 48-91, when loadPools resolves
OvInitResolve ==
  /\ ovStatus = "loading"
  /\ ovStatus' = "ready"
  /\ overviewBadge' = OverviewBadgeText(catalog, readVisited(store, storageMode))
  /\ markers' = OverviewMarkers(catalog, readVisited(store, storageMode))
  /\ UNCHANGED << catalog, storageMode, toggles, store, today, loads, page, overviewMapText,
                  last, detailSeen >>
  /\ UNCHANGED appVars

\* initOverviewMap, lines 55-59, when loadPools rejects
OvInitReject ==
  /\ ovStatus = "loading"
  /\ ovStatus' = "error"
  /\ overviewMapText' = LoadErrorText
  /\ UNCHANGED << catalog, storageMode, toggles, store, today, loads, page, overviewBadge,
                  markers, last, detailSeen >>
  /\ UNCHANGED appVars

\* the handler without the removal of the stamps page
ResetKeys_NoStampsPage == { "name", "visited", "selection" }

\* the keys the handler removes, lines 114-119
ResetKeys == { "name", "visited", "selection", "stampsPage" }

\* localStorage.removeItem(key) for every key of ks
RemoveItems(s, ks) == [k \in Keys |-> IF k \in ks THEN <<>> ELSE s[k]]

\* the resetProfileBtn click handler, lines 106-128.  ok is the answer to
\* confirm().
ResetProfile ==
  \E ok \in BOOLEAN :
    /\ ovStatus # "closed"
    /\ IF ~ok
         THEN /\ last' = [NoLast EXCEPT !.op = "reset"]
              /\ UNCHANGED << store, loads, detailSeen >>
              /\ UNCHANGED ovVars
         ELSE IF RemoveItemThrows(storageMode)
         THEN /\ last' = [NoLast EXCEPT !.op = "reset", !.confirmed = TRUE, !.threw = TRUE,
                                        !.alert = ResetFailedAlert]
              /\ UNCHANGED << store, loads, detailSeen >>
              /\ UNCHANGED ovVars
         ELSE /\ loads < MaxLoads
              /\ store' = RemoveItems(store, ResetKeys)
              /\ last' = [NoLast EXCEPT !.op = "reset", !.confirmed = TRUE, !.reload = TRUE]
              /\ loads' = loads + 1
              /\ detailSeen' = <<>>
              /\ OvFresh
    /\ UNCHANGED << catalog, storageMode, toggles, today, page >>
    /\ UNCHANGED appVars

\* String.prototype.trim on a sequence of characters
RECURSIVE TrimLeft(_)
TrimLeft(str) == IF str # <<>> /\ Head(str) = " " THEN TrimLeft(Tail(str)) ELSE str

RECURSIVE TrimRight(_)
TrimRight(str) ==
  IF str # <<>> /\ str[Len(str)] = " " THEN TrimRight(SubSeq(str, 1, Len(str) - 1)) ELSE str

Trim(str) == TrimRight(TrimLeft(str))

\* what prompt() may return; <<>> stands for null and for the empty string
PromptInputs == { <<>>, << " " >>, << " ", "B", "o" >> }

\* the changeNameBtn click handler, part_001 lines 132-154
ChangeName ==
  \E input \in PromptInputs :
    /\ ovStatus # "closed"
    /\ IF input = <<>> \/ Trim(input) = <<>>
         THEN /\ last' = [NoLast EXCEPT !.op = "rename"]
              /\ UNCHANGED store
         ELSE /\ store' = IF SetItemThrows(storageMode) THEN store
                          ELSE [store EXCEPT !["name"] = << Trim(input) >>]
              /\ last' = [NoLast EXCEPT !.op = "rename", !.confirmed = TRUE,
                                        !.threw = SetItemThrows(storageMode),
                                        !.alert = NameUpdatedAlert]
    /\ UNCHANGED << catalog, storageMode, toggles, today, loads, page, detailSeen >>
    /\ UNCHANGED ovVars
    /\ UNCHANGED appVars

-----------------------------------------------------------------------------
(* The environment *)

\* midnight passes
Tick ==
  /\ today < Len(Calendar)
  /\ today' = today + 1
  /\ UNCHANGED << catalog, storageMode, toggles, store, loads, page, last, detailSeen >>
  /\ UNCHANGED appVars
  /\ UNCHANGED ovVars

-----------------------------------------------------------------------------
(* Specification *)

Init ==
  /\ catalog \in Catalogs
  /\ store \in DeviceStores
  /\ storageMode \in StorageModes
  \* a browser that denies storage access never stored anything
  /\ storageMode = "blocked" => store = EmptyStore
  /\ today = 1
  /\ loads = 0
  /\ page = "none"
  /\ appStatus = "closed"
  /\ pools = <<>>
  /\ visited = EmptyMap
  /\ selectedIndex = 0
  /\ currentStampsPage = 0
  /\ onStampsView = FALSE
  /\ mapReady = FALSE
  /\ poolList = BlankList
  /\ countBadge = <<>>
  /\ passportGrid = <<>>
  /\ ovStatus = "closed"
  /\ overviewMapText = ""
  /\ overviewBadge = <<>>
  /\ markers = <<>>
  /\ last = NoLast
  /\ toggles = 0
  /\ calls = NoCalls
  /\ base = {}
  /\ lastWritten = <<>>
  /\ lastPageWritten = <<>>
  /\ detailSeen = <<>>

Next ==
  \/ AppLoad
  \/ AppInitResolve
  \/ AppInitReject
  \/ ToggleStamp
  \/ StampChipClick
  \/ RowClick
  \/ SetView
  \/ OpenInNativeMaps
  \/ OvLoad
  \/ OvInitResolve
  \/ OvInitReject
  \/ ResetProfile
  \/ ChangeName
  \/ Tick

Spec == Init /\ [][Next]_vars

-----------------------------------------------------------------------------
(* Shared vocabulary of the properties *)

\* the raw persisted visited map
PersistedMap == IF store["visited"] = <<>> THEN EmptyMap ELSE store["visited"][1]

Odd(n) == n % 2 = 1

\* the number of catalog pools that have a VisitedEntry
VisitedCatalogCount == Cardinality({ id \in IdsOf(pools) : id \in DOMAIN visited })

-----------------------------------------------------------------------------
(* C1 *)

\* C1: within one lifetime of the app page, a pool that had no entry when the
\* page loaded has an entry exactly when toggleStamp was called on it an odd
\* number of times, whatever was toggled in between.
C1_ToggleParity ==
  \A p \in PoolIds :
    p \notin base => ((p \in DOMAIN visited) <=> Odd(calls[p]))

\* a pool toggled twice and absent again
C1_Witness ==
  \E p \in PoolIds : p \notin base /\ calls[p] = 2 /\ p \notin DOMAIN visited

-----------------------------------------------------------------------------
(* C2 *)

\* C2: the page index renderStamps passes to writeStampsPage lies in
\* [0, pages - 1], pages = max(1, ceil(v / 3)), v the number of visited
\* catalog pools; it is 0 when no pool is visited.
C2_WrittenPageInRange ==
  lastPageWritten # <<>> =>
    /\ lastPageWritten[1] \in 0..(Max(1, CeilDiv(VisitedCatalogCount, stampsPerPage)) - 1)
    /\ (VisitedCatalogCount = 0 => lastPageWritten[1] = 0)

-----------------------------------------------------------------------------
(* C3 *)

SomeKeyRemoved == \E k \in Keys : store[k] # <<>> /\ store'[k] = <<>>

\* what the storage layer reads back from s on a browser whose storage works
ReadsDefaults(s) ==
  /\ readVisited(s, "ok") = EmptyMap
  /\ readSelection(s, "ok") = 0
  /\ readStampsPage(s, "ok") = 0
  /\ GetItem(s, "name") = <<>>

C3_Step ==
  \* no key is removed except by a confirmed reset
  /\ SomeKeyRemoved => (last'.op = "reset" /\ last'.confirmed)
  \* a declined reset changes no key and does not reload
  /\ (last'.op = "reset" /\ ~last'.confirmed) => (store' = store /\ loads' = loads)
  \* a confirmed reset on available storage removes all four keys and reloads
  /\ (last'.op = "reset" /\ last'.confirmed /\ ~RemoveItemThrows(storageMode)) =>
       /\ \A k \in Keys : store'[k] = <<>>
       /\ ReadsDefaults(store')
       /\ last'.reload

\* C3: Profile Reset removes nothing when the confirmation is declined (and
\* does not reload); when confirmed on available storage it removes all four
\* keys, so that reads give the defaults; no step removes a key without an
\* accepted confirmation.
C3_ResetGated == [][C3_Step]_vars

\* a confirmed reset, then the reloaded overview reading the defaults
C3_Witness ==
  /\ last.op = "reset"
  /\ last.confirmed
  /\ last.reload
  /\ ReadsDefaults(store)
  /\ ovStatus = "ready"
  /\ Len(catalog) > 0
  /\ overviewBadge = << 0, Len(catalog) >>

-----------------------------------------------------------------------------
(* C4 *)

\* what the rendered row says about its pool agrees with map m
RowAgrees(m) ==
  poolList.kind = "row" =>
    /\ poolList.stamped <=> (poolList.id \in DOMAIN m)
    /\ poolList.stamped => poolList.date = formatDateAU(m[poolList.id].date)

\* every rendered stamp card shows a pool visited in m, with m's date
GridAgrees(m) ==
  \A i \in 1..Len(passportGrid) :
    /\ passportGrid[i].id \in DOMAIN m
    /\ passportGrid[i].date = formatDateAU(m[passportGrid[i].id].date)

\* C4 as claimed: whenever the app page has rendered, what it shows agrees
\* with the persisted VisitedMap.
C4_ViewMatchesStore ==
  appStatus = "ready" => (RowAgrees(PersistedMap) /\ GridAgrees(PersistedMap))

\* C4 as amended: every mutation is passed to writeVisited before the views
\* are rendered and the views agree with the in-memory map; they agree with
\* the persisted map on a browser whose storage calls succeed.
C4_ViewMatchesMemory ==
  appStatus = "ready" =>
    /\ RowAgrees(visited)
    /\ GridAgrees(visited)
    /\ (calls # NoCalls => lastWritten = << visited >>)
    /\ (storageMode = "ok" =>
          /\ PersistedMap = visited
          /\ RowAgrees(PersistedMap)
          /\ GridAgrees(PersistedMap))

\* a visit made and rendered, row and card, with storage working
C4_Witness ==
  /\ appStatus = "ready"
  /\ storageMode = "ok"
  /\ poolList.kind = "row"
  /\ poolList.stamped
  /\ calls[poolList.id] = 1
  /\ \E i \in 1..Len(passportGrid) : passportGrid[i].id = poolList.id
  /\ PersistedMap = visited

-----------------------------------------------------------------------------
(* C5 *)

\* DD/MM/YYYY
IsAUDate(d) ==
  /\ Len(d) = 10
  /\ \A i \in {1, 2, 4, 5, 7, 8, 9, 10} : IsDigit(d[i])
  /\ d[3] = "/"
  /\ d[6] = "/"

\* the day a DD/MM/YYYY string names, as a number that grows with time
DayNumber(d) ==
  (DigitValue(d[7]) * 1000 + DigitValue(d[8]) * 100 + DigitValue(d[9]) * 10 + DigitValue(d[10])) * 10000
  + (DigitValue(d[4]) * 10 + DigitValue(d[5])) * 100
  + DigitValue(d[1]) * 10 + DigitValue(d[2])

\* the gallery: the pools of page 0, page 1, ..., as renderStamps slices them
GalleryPages ==
  [k \in 0..(TotalPages(Len(VisitedPools(pools, visited))) - 1) |->
     PagePools(VisitedPools(pools, visited), k)]

RECURSIVE Concat(_, _, _)
Concat(f, k, n) == IF k > n THEN <<>> ELSE f[k] \o Concat(f, k + 1, n)

GalleryOrder == Concat(GalleryPages, 0, TotalPages(Len(VisitedPools(pools, visited))) - 1)

\* C5: with valid DD/MM/YYYY dates, reading page 0, page 1, ... the visit
\* dates never go back in time, every page but the last holds 3 pools, and
\* every visited catalog pool is on exactly one page.
C5_GalleryChronological ==
  (appStatus = "ready" /\ \A id \in DOMAIN visited : IsAUDate(visited[id].date)) =>
    /\ \A i, j \in 1..Len(GalleryOrder) :
         i < j => DayNumber(visited[GalleryOrder[i].id].date) <= DayNumber(visited[GalleryOrder[j].id].date)
    /\ \A k \in DOMAIN GalleryPages :
         k < TotalPages(Len(VisitedPools(pools, visited))) - 1 => Len(GalleryPages[k]) = stampsPerPage
    /\ \A id \in IdsOf(pools) :
         id \in DOMAIN visited =>
           Cardinality({ i \in 1..Len(GalleryOrder) : GalleryOrder[i].id = id }) = 1

-----------------------------------------------------------------------------
(* C6 *)

\* the index the claim says the view uses: the stored one, or 0 when it is
\* out of range
EffectiveIndex == IF selectedIndex \in 0..(Len(pools) - 1) THEN selectedIndex ELSE 0

\* C6: with a non-empty catalog the first render succeeds and shows
\* pools[i], i the stored index or 0 when that is out of range, and a pan goes
\* to the same pool.
C6_SelectionClamped ==
  (appStatus \in {"ready", "renderError"} /\ Len(pools) > 0) =>
    /\ appStatus = "ready"
    /\ poolList.kind = "row"
    /\ poolList.id = pools[EffectiveIndex + 1].id
    /\ last.op = "pan" => last.target = << pools[EffectiveIndex + 1].id >>

-----------------------------------------------------------------------------
(* C7 *)

\* C7: on either page a rejected loadPools ends with an error message in the
\* affected view and nothing of the initial render done.
C7_LoadFailureSurfaced ==
  /\ ovStatus = "error" =>
       (overviewMapText = LoadErrorText /\ markers = <<>> /\ overviewBadge = <<>>)
  /\ appStatus = "loadError" =>
       (poolList.kind = "error" /\ ~mapReady /\ pools = <<>>)

-----------------------------------------------------------------------------
(* C8 *)

\* C8: a rename or reset whose storage call threw ends in the failure alert,
\* never in a success message or a reload.
C8_StorageFailureAlerted ==
  (last.op \in {"rename", "reset"} /\ last.threw) =>
    (last.alert = ResetFailedAlert /\ ~last.reload)

-----------------------------------------------------------------------------
(* C9 *)

\* C9: an overview loaded after an app page whose writes succeeded has one
\* marker per catalog pool, coloured visited exactly for the pools the app
\* page showed as visited, and the same badge; all of it derived from the
\* persisted map.
C9_OverviewAgreesWithDetail ==
  ovStatus = "ready" =>
    /\ Len(markers) = Len(catalog)
    /\ \A i \in 1..Len(markers) :
         /\ markers[i].id = catalog[i].id
         /\ markers[i].visited <=> Stamped(PersistedMap, catalog[i].id)
    /\ overviewBadge = << Cardinality(DOMAIN PersistedMap), Len(catalog) >>
    /\ (detailSeen # <<>> /\ storageMode = "ok") =>
         /\ \A i \in 1..Len(markers) :
              markers[i].visited <=> (markers[i].id \in detailSeen[1].visited)
         /\ overviewBadge = detailSeen[1].badge

\* toggles made on the app page, then the overview showing a visited and an
\* unvisited marker
C9_Witness ==
  /\ ovStatus = "ready"
  /\ storageMode = "ok"
  /\ detailSeen # <<>>
  /\ toggles > 0
  /\ \E i, j \in 1..Len(markers) : markers[i].visited /\ ~markers[j].visited

-----------------------------------------------------------------------------
(* C10 *)

C10_Step ==
  /\ \A p \in DOMAIN visited' : visited'[p].done = TRUE
  /\ \A p \in PoolIds :
    calls'[p] = calls[p] + 1 =>
      /\ IF p \in DOMAIN visited
           THEN p \notin DOMAIN visited'
           ELSE /\ p \in DOMAIN visited'
                /\ visited'[p] = [done |-> TRUE, date |-> FormatEnAU(Calendar[today])]
      /\ \A q \in PoolIds \ {p} :
           /\ (q \in DOMAIN visited) <=> (q \in DOMAIN visited')
           /\ q \in DOMAIN visited => visited'[q] = visited[q]
      /\ selectedIndex' = selectedIndex
      /\ onStampsView' = onStampsView
      /\ lastWritten' = << visited' >>

\* C10: toggleStamp(p) deletes p's entry or inserts {done: true, date: today},
\* leaves every other entry, the selected index and the view flag alone, and
\* passes the whole updated map to writeVisited; every entry has done = true.
C10_ToggleFrame == [][C10_Step]_vars

\* an un-visit that left the three other entries in place
C10_Witness ==
  /\ appStatus = "ready"
  /\ \E p \in PoolIds : calls[p] = 1 /\ p \notin DOMAIN visited /\ p \in base
  /\ Cardinality(DOMAIN visited) = 3
  /\ lastWritten = << visited >>

-----------------------------------------------------------------------------
(* C11 *)

\* the cards of a grid without the animation class, which is an argument of
\* the render call and not part of the rendered state
StripPop(grid) ==
  [i \in 1..Len(grid) |-> [id |-> grid[i].id, name |-> grid[i].name, date |-> grid[i].date]]

\* YYYY-MM-DD rewritten as DD/MM/YYYY
ISOAsAU(d) == << d[9], d[10], "/", d[6], d[7], "/", d[1], d[2], d[3], d[4] >>

\* ---- the steps that are render paths and nothing else
\* init's renderList and updateCount
InitRenderStep == appStatus = "loading" /\ appStatus' \in {"ready", "renderError"}

\* initOverviewMap drawing the markers and the badge
OverviewRenderStep == ovStatus = "loading" /\ ovStatus' = "ready"

\* a renderStamps on an app page that has already run renderStamps, with no
\* toggle in the step
SecondStampsRenderStep ==
  /\ appStatus = "ready"
  /\ appStatus' = "ready"
  /\ toggles' = toggles
  /\ lastPageWritten # <<>>

C11_Step ==
  \* in memory the map changes only with a toggle or a page load
  /\ (toggles' = toggles /\ loads' = loads) => visited' = visited
  \* in storage it changes only with a toggle or a confirmed reset
  /\ (toggles' = toggles /\ ~(last'.op = "reset" /\ last'.confirmed)) =>
       store'["visited"] = store["visited"]
  \* the initial render and the overview load change neither
  /\ (InitRenderStep \/ OverviewRenderStep) => (store' = store /\ visited' = visited)
  \* a legacy date is shown as DD/MM/YYYY and stays as it was in the map
  /\ \A i \in 1..Len(passportGrid') :
       LET id == passportGrid'[i].id
       IN /\ id \in DOMAIN visited'
          /\ IsISODate(visited'[id].date) =>
               /\ passportGrid'[i].date = ISOAsAU(visited'[id].date)
               /\ (id \in DOMAIN visited => visited'[id] = visited[id])
          /\ ~IsISODate(visited'[id].date) => passportGrid'[i].date = visited'[id].date
  \* rendering again shows the same cards and changes no persisted slice
  /\ SecondStampsRenderStep =>
       /\ store' = store
       /\ currentStampsPage' = currentStampsPage
       /\ lastPageWritten' = lastPageWritten
       /\ StripPop(passportGrid') = StripPop(passportGrid)
       /\ poolList' = poolList
       /\ countBadge' = countBadge

\* C11: the render paths (renderList, renderStamps, updateCount, the overview
\* load) never change the VisitedMap in memory or in storage; a legacy
\* YYYY-MM-DD date is shown as DD/MM/YYYY while the stored value stays; a
\* second render of the same state shows the same output and changes no
\* persisted slice.
C11_RenderIsPure == [][C11_Step]_vars

\* the stamps view rendered again after a toggle on the same page, showing
\* the legacy visit as 16/12/2023 while memory and storage still hold the
\* YYYY-MM-DD value
C11_Witness ==
  /\ appStatus = "ready"
  /\ onStampsView
  /\ calls # NoCalls
  /\ lastPageWritten = << currentStampsPage >>
  /\ "b" \in DOMAIN PersistedMap
  /\ PersistedMap["b"].date = LegacyDate
  /\ visited = PersistedMap
  /\ \E i \in 1..Len(passportGrid) :
       /\ passportGrid[i].id = "b"
       /\ passportGrid[i].date = FormatEnAU([d |-> 16, m |-> 12, y |-> 2023])
       /\ ~passportGrid[i].pop

-----------------------------------------------------------------------------
(* C12 *)

\* every key the app page read at its load is the id of a catalog pool
KeysWereCatalogIds == base \subseteq IdsOf(catalog)

\* C12: when every key of the VisitedMap read at page load is a catalog id,
\* then on the rendered app page, after any toggles, every key of the map (in
\* memory and persisted) is a catalog id, the count in the header badge is at
\* most the number of pools, and it equals the number of stamp cards over all
\* pages of the gallery.
C12_KeysCountAndCards ==
  (KeysWereCatalogIds /\ appStatus = "ready") =>
    /\ DOMAIN visited \subseteq IdsOf(pools)
    /\ DOMAIN PersistedMap \subseteq IdsOf(pools)
    /\ countBadge # <<>>
    /\ countBadge[2] = Len(pools)
    /\ countBadge[1] <= countBadge[2]
    /\ countBadge[1] = Len(GalleryOrder)

\* every pool visited at load, one un-visited and visited again: four of
\* four in the badge and four cards on two pages
C12_Witness ==
  /\ appStatus = "ready"
  /\ KeysWereCatalogIds
  /\ base = PoolIds
  /\ \E p \in PoolIds : calls[p] = 2
  /\ countBadge = << Len(AllPools), Len(AllPools) >>
  /\ Len(GalleryOrder) = Len(AllPools)
  /\ TotalPages(Len(GalleryOrder)) = 2

====
